---- MODULE Spec2Model ----
(***************************************************************************)
(* String Analyzer API (middo1/string-analyzer-api).                       *)
(*                                                                         *)
(* src/index.js: an Express application holding an in-memory Map keyed by  *)
(* the SHA-256 digest of the analysed string, with five handlers           *)
(* (POST /strings, GET /strings/:string_value, GET /strings,               *)
(* GET /strings/filter-by-natural-language, DELETE /strings/:string_value).*)
(* src/unnamed/part_000: a second server file with its own analyzeString   *)
(* and its own Map (strDB).                                                *)
(*                                                                         *)
(* JavaScript strings are TLA+ strings; the character at index i (1-based) *)
(* of s is SubSeq(s, i, i).                                                *)
(***************************************************************************)
EXTENDS Integers, Sequences, FiniteSets, TLC

VARIABLES
    store,      \* index.js `store`: the Map's entries in insertion order
    now,        \* the wall clock read by `new Date()`
    request,    \* the request being answered, Idle between requests
    response,   \* the response the handler has sent for it
    strDB       \* part_000 `strDB`: that server's Map, in insertion order

vars == <<store, now, request, response, strDB>>

(***************************************************************************)
(* Bounds of the model.                                                    *)
(***************************************************************************)
MaxStore == 3       \* records held at once
MaxClock == 1       \* clock ticks

(***************************************************************************)
(* Characters and the String.prototype methods the code uses.              *)
(***************************************************************************)
CharAt(s, i) == SubSeq(s, i, i)

LowerLetters == "abcdefghijklmnopqrstuvwxyz"
UpperLetters == "ABCDEFGHIJKLMNOPQRSTUVWXYZ"
Digits == "0123456789"

CharsOf(s) == {CharAt(s, i) : i \in 1..Len(s)}

LowerSet == CharsOf(LowerLetters)
UpperSet == CharsOf(UpperLetters)
DigitSet == CharsOf(Digits)

SpaceSet == {" ", "\t", "\n", "\r", "\f"}
AlnumSet == LowerSet \cup UpperSet \cup DigitSet
WordSet == AlnumSet \cup {"_"}

\* the regular expression class \s
IsSpace(c) == c \in SpaceSet

\* the regular expression class \w
IsWordChar(c) == c \in WordSet

\* the regular expression class \d
IsDigit(c) == c \in DigitSet

IndexIn(alphabet, c) == CHOOSE i \in 1..Len(alphabet) : CharAt(alphabet, i) = c

LowerChar(c) == IF c \in UpperSet THEN CharAt(LowerLetters, IndexIn(UpperLetters, c)) ELSE c

\* String.prototype.toLowerCase
toLowerCase(s) ==
    LET F[i \in 0..Len(s)] == IF i = 0 THEN "" ELSE F[i - 1] \o LowerChar(CharAt(s, i))
    IN  F[Len(s)]

\* s.replace(/\s+/g, ""): every run of whitespace is removed
RemoveSpaces(s) ==
    LET F[i \in 0..Len(s)] ==
            IF i = 0 THEN ""
            ELSE IF IsSpace(CharAt(s, i)) THEN F[i - 1] ELSE F[i - 1] \o CharAt(s, i)
    IN  F[Len(s)]

\* s.split("").reverse().join("")
Reversed(s) ==
    LET F[i \in 0..Len(s)] == IF i = 0 THEN "" ELSE CharAt(s, i) \o F[i - 1]
    IN  F[Len(s)]

\* String.prototype.trim
Trim(s) ==
    LET solid == {i \in 1..Len(s) : ~IsSpace(CharAt(s, i))}
        lo == CHOOSE i \in solid : \A j \in solid : i <= j
        hi == CHOOSE i \in solid : \A j \in solid : j <= i
    IN  IF solid = {} THEN "" ELSE SubSeq(s, lo, hi)

\* s.split(/\s+/): the pieces between maximal runs of whitespace (a leading or
\* trailing run leaves an empty piece at that end)
SplitSpaces(s) ==
    LET F[i \in 0..Len(s)] ==
            \* <<pieces closed so far, piece being read>> after i characters
            IF i = 0 THEN <<<<>>, "">>
            ELSE LET c == CharAt(s, i)
                     p == F[i - 1]
                 IN  IF IsSpace(c)
                       THEN IF i > 1 /\ IsSpace(CharAt(s, i - 1))
                              THEN p
                              ELSE <<Append(p[1], p[2]), "">>
                       ELSE <<p[1], p[2] \o c>>
        r == F[Len(s)]
    IN  Append(r[1], r[2])

\* array.filter(Boolean) on an array of strings: the empty strings are dropped
FilterBoolean(arr) == SelectSeq(arr, LAMBDA piece : piece # "")

\* String.prototype.includes
Includes(s, sub) ==
    \E i \in 1..(Len(s) - Len(sub) + 1) : SubSeq(s, i, i + Len(sub) - 1) = sub

(***************************************************************************)
(* index.js utility functions.                                             *)
(***************************************************************************)

\* The SHA-256 hex digest, taken as collision free: two digests are equal
\* exactly when the digested strings are.
sha256(str) == [alg |-> "sha256", hex_of |-> str]

countWords(s) ==
    IF s = "" THEN 0 ELSE Len(FilterBoolean(SplitSpaces(Trim(s))))

charFreqMap(s) ==
    [ch \in CharsOf(s) |-> Cardinality({i \in 1..Len(s) : CharAt(s, i) = ch})]

isPalindrome(s) ==
    LET normalized == RemoveSpaces(toLowerCase(s))
    IN  normalized = Reversed(normalized)

analyzeString(value) ==
    [length                  |-> Len(value),
     is_palindrome           |-> isPalindrome(value),
     unique_characters       |-> Cardinality(CharsOf(value)),
     word_count              |-> countWords(value),
     sha256_hash             |-> sha256(value),
     character_frequency_map |-> charFreqMap(value)]

(***************************************************************************)
(* The Map, as the sequence of its entries in insertion order.             *)
(***************************************************************************)
MapHas(m, key) == \E i \in 1..Len(m) : m[i].id = key

MapGet(m, key) == m[CHOOSE i \in 1..Len(m) : m[i].id = key]

\* Map.prototype.set for a key the map does not hold
MapSet(m, key, entry) == Append(m, entry)

\* a deletion that removes nothing
MapDeleteNothing(m, key) == m

MapDelete(m, key) == SelectSeq(m, LAMBDA e : e.id # key)

\* Array.from(map.values())
MapValues(m) == m

(***************************************************************************)
(* Request inputs.                                                         *)
(***************************************************************************)

\* the strings analysed
Values == {"", "aa", "aaa", "ab", "A man A"}

\* req.body after express.json(): absent `value`, a string, or another JSON type
NoValue == [has_value |-> FALSE, type |-> "undefined", value |-> ""]
StringValue(s) == [has_value |-> TRUE, type |-> "string", value |-> s]
NumberValue == [has_value |-> TRUE, type |-> "number", value |-> "42"]

BodiesOf(values) == {NoValue, NumberValue} \cup {StringValue(s) : s \in values}

Bodies == BodiesOf(Values)

ErrorBody(msg) == [error |-> msg]
NoBody == [empty |-> TRUE]

(***************************************************************************)
(* Handlers of index.js.  Each is the pair <<Map after, response>> computed *)
(* from the Map before and the handler's inputs.                           *)
(***************************************************************************)

\* an insertion that, on a duplicate, stamps the stored entry with the time of
\* the rejected request
PostStringsRefreshing(m, t, body) ==
    IF ~body.has_value
      THEN [store |-> m, res |-> [status |-> 400, body |-> ErrorBody("Missing 'value' field in request body")]]
    ELSE IF body.type # "string"
      THEN [store |-> m, res |-> [status |-> 422, body |-> ErrorBody("'value' must be a string")]]
    ELSE IF MapHas(m, sha256(body.value))
      THEN [store |-> [i \in 1..Len(m) |->
                         IF m[i].id = sha256(body.value) THEN [m[i] EXCEPT !.created_at = t] ELSE m[i]],
            res |-> [status |-> 409, body |-> ErrorBody("String already exists in the system")]]
    ELSE [store |-> Append(m, [id |-> sha256(body.value), value |-> body.value,
                               properties |-> analyzeString(body.value), created_at |-> t]),
          res |-> [status |-> 201,
                   body |-> [id |-> sha256(body.value), value |-> body.value,
                             properties |-> analyzeString(body.value), created_at |-> t]]]

\* app.post("/strings")
PostStrings(m, t, body) ==
    IF ~body.has_value
      THEN [store |-> m, res |-> [status |-> 400, body |-> ErrorBody("Missing 'value' field in request body")]]
    ELSE IF body.type # "string"
      THEN [store |-> m, res |-> [status |-> 422, body |-> ErrorBody("'value' must be a string")]]
    ELSE LET value == body.value
             hash == sha256(value)
         IN  IF MapHas(m, hash)
               THEN [store |-> m, res |-> [status |-> 409, body |-> ErrorBody("String already exists in the system")]]
               ELSE LET entry == [id |-> hash, value |-> value,
                                  properties |-> analyzeString(value), created_at |-> t]
                    IN  [store |-> MapSet(m, hash, entry), res |-> [status |-> 201, body |-> entry]]

\* app.get("/strings/:string_value")
GetString(m, raw) ==
    LET hash == sha256(raw)
    IN  IF ~MapHas(m, hash)
          THEN [store |-> m, res |-> [status |-> 404, body |-> ErrorBody("String not found")]]
          ELSE [store |-> m, res |-> [status |-> 200, body |-> MapGet(m, hash)]]

\* app.delete("/strings/:string_value")
DeleteString(m, raw) ==
    LET hash == sha256(raw)
    IN  IF ~MapHas(m, hash)
          THEN [store |-> m, res |-> [status |-> 404, body |-> ErrorBody("String not found")]]
          ELSE [store |-> MapDelete(m, hash), res |-> [status |-> 204, body |-> NoBody]]

(***************************************************************************)
(* Numbers and query-string values.                                        *)
(***************************************************************************)
DigitValue(c) == IndexIn(Digits, c) - 1

\* the value of a string of decimal digits
DigitsToNumber(ds) ==
    LET F[i \in 0..Len(ds)] == IF i = 0 THEN 0 ELSE 10 * F[i - 1] + DigitValue(CharAt(ds, i))
    IN  F[Len(ds)]

\* String(n) for an integer n
NumberToString(n) ==
    LET D[k \in 0..(IF n < 0 THEN -n ELSE n)] ==
            IF k < 10 THEN CharAt(Digits, k + 1)
            ELSE D[k \div 10] \o CharAt(Digits, (k % 10) + 1)
    IN  IF n < 0 THEN "-" \o D[-n] ELSE D[n]

\* the longest prefix of s made of digits
LeadingDigits(s) ==
    LET run == {k \in 0..Len(s) : \A i \in 1..k : IsDigit(CharAt(s, i))}
        best == CHOOSE k \in run : \A j \in run : j <= k
    IN  SubSeq(s, 1, best)

\* s without its leading whitespace
TrimStart(s) ==
    LET solid == {i \in 1..Len(s) : ~IsSpace(CharAt(s, i))}
        lo == CHOOSE i \in solid : \A j \in solid : i <= j
    IN  IF solid = {} THEN "" ELSE SubSeq(s, lo, Len(s))

NaN == [nan |-> TRUE, n |-> 0]
Number(n) == [nan |-> FALSE, n |-> n]

\* parseInt(str, 10): leading whitespace skipped, an optional sign, then the
\* longest run of digits; whatever follows the run is ignored; NaN without a digit
parseInt(str) ==
    LET t == TrimStart(str)
        signed == Len(t) > 0 /\ CharAt(t, 1) \in {"+", "-"}
        ds == LeadingDigits(IF signed THEN SubSeq(t, 2, Len(t)) ELSE t)
    IN  IF ds = "" THEN NaN
        ELSE IF signed /\ CharAt(t, 1) = "-" THEN Number(0 - DigitsToNumber(ds))
        ELSE Number(DigitsToNumber(ds))

\* A query parameter is the sequence of its occurrences in the query string:
\* req.query.p is undefined for none, a string for one and an array for several.
IsUndefined(param) == Len(param) = 0
IsStringParam(param) == Len(param) = 1

\* Array.prototype.join(",")
JoinComma(arr) ==
    LET F[i \in 0..Len(arr)] ==
            IF i = 0 THEN "" ELSE IF i = 1 THEN arr[1] ELSE F[i - 1] \o "," \o arr[i]
    IN  F[Len(arr)]

\* String(x) of a defined query parameter: the string, or the array joined by ","
ParamToString(param) == IF IsStringParam(param) THEN param[1] ELSE JoinComma(param)

\* the object literal {} and the assignment obj.key = val
EmptyObject == [k \in {} |-> 0]
Put(obj, key, val) == [k \in DOMAIN obj \cup {key} |-> IF k = key THEN val ELSE obj[k]]
Has(obj, key) == key \in DOMAIN obj

(***************************************************************************)
(* app.get("/strings"): the structured filter.  Each stage takes and gives *)
(* [returned, res, results, filtersApplied]; `returned` is set by an early *)
(* `return res.status(400)...` or by an exception leaving the handler.     *)
(***************************************************************************)
Reject(st, msg) == [st EXCEPT !.returned = TRUE, !.res = [status |-> 400, body |-> ErrorBody(msg)]]

\* an exception thrown in a handler reaches Express's default error handler
Throw(st, msg) == [st EXCEPT !.returned = TRUE, !.res = [status |-> 500, body |-> ErrorBody(msg)]]

\* filtersApplied.key = val; results = kept, the filtered results
Keep(st, key, val, kept) == [st EXCEPT !.filtersApplied = Put(@, key, val), !.results = kept]

\* a stage that has answered 400 has returned from the handler: st.returned
\* makes the later stages leave the response as it is
StageIsPalindrome(st, param) ==
    IF st.returned \/ IsUndefined(param) THEN st
    ELSE IF ~IsStringParam(param)
      THEN Throw(st, "TypeError: req.query.is_palindrome.toLowerCase is not a function")
    ELSE LET val == toLowerCase(param[1])
         IN  IF val = "true" \/ val = "false"
               THEN LET boolVal == (val = "true")
                    IN  Keep(st, "is_palindrome", boolVal,
                             SelectSeq(st.results, LAMBDA r : r.properties.is_palindrome = boolVal))
               ELSE Reject(st, "is_palindrome must be true or false")

StageMinLength(st, param) ==
    IF st.returned \/ IsUndefined(param) THEN st
    ELSE LET n == parseInt(ParamToString(param))
         IN  IF n.nan THEN Reject(st, "min_length must be an integer")
             ELSE Keep(st, "min_length", n.n,
                       SelectSeq(st.results, LAMBDA r : r.properties.length >= n.n))

\* a max_length stage that keeps only the strictly shorter strings
StageMaxLengthStrict(st, param) ==
    IF st.returned \/ IsUndefined(param) THEN st
    ELSE LET n == parseInt(ParamToString(param))
         IN  IF n.nan THEN Reject(st, "max_length must be an integer")
             ELSE Keep(st, "max_length", n.n,
                       SelectSeq(st.results, LAMBDA r : r.properties.length < n.n))

StageMaxLength(st, param) ==
    IF st.returned \/ IsUndefined(param) THEN st
    ELSE LET n == parseInt(ParamToString(param))
         IN  IF n.nan THEN Reject(st, "max_length must be an integer")
             ELSE Keep(st, "max_length", n.n,
                       SelectSeq(st.results, LAMBDA r : r.properties.length <= n.n))

StageWordCount(st, param) ==
    IF st.returned \/ IsUndefined(param) THEN st
    ELSE LET n == parseInt(ParamToString(param))
         IN  IF n.nan THEN Reject(st, "word_count must be an integer")
             ELSE Keep(st, "word_count", n.n,
                       SelectSeq(st.results, LAMBDA r : r.properties.word_count = n.n))

StageContainsCharacter(st, param) ==
    IF st.returned \/ IsUndefined(param) THEN st
    ELSE IF ~IsStringParam(param) \/ Len(param[1]) = 0
      THEN Reject(st, "contains_character must be a string")
    ELSE LET ch == param[1]
         IN  Keep(st, "contains_character", ch,
                  SelectSeq(st.results, LAMBDA r : Includes(r.value, ch)))

\* line 120: let results = Array.from(store.values()); filtersApplied = {}
StartList(m) ==
    [returned |-> FALSE, res |-> [status |-> 0, body |-> NoBody],
     results |-> MapValues(m), filtersApplied |-> EmptyObject]

\* line 162: the 200 response unless a stage has answered already
EndList(m, st) ==
    [store |-> m,
     res |-> IF st.returned THEN st.res
             ELSE [status |-> 200,
                   body |-> [data |-> st.results, count |-> Len(st.results),
                             filters_applied |-> st.filtersApplied]]]

ListStrings(m, query) ==
    EndList(m,
        StageContainsCharacter(StageWordCount(StageMaxLength(StageMinLength(StageIsPalindrome(
            StartList(m),
            query.is_palindrome),
            query.min_length),
            query.max_length),
            query.word_count),
            query.contains_character))

(***************************************************************************)
(* Regular expressions of the natural-language handler.                    *)
(***************************************************************************)

\* the literal lit occupies s from index i
MatchesAt(s, lit, i) ==
    /\ i >= 1
    /\ i + Len(lit) - 1 <= Len(s)
    /\ SubSeq(s, i, i + Len(lit) - 1) = lit

WordCharAt(s, i) == i \in 1..Len(s) /\ IsWordChar(CharAt(s, i))

\* \b just before index i: a word character on exactly one side
Boundary(s, i) == WordCharAt(s, i - 1) # WordCharAt(s, i)

\* /\blit\b/.test(s)
TestWord(s, lit) ==
    \E i \in 1..(Len(s) - Len(lit) + 1) :
        MatchesAt(s, lit, i) /\ Boundary(s, i) /\ Boundary(s, i + Len(lit))

\* (\d+) read from index i: the longest run of digits there
DigitsAt(s, i) == IF i > Len(s) THEN "" ELSE LeadingDigits(SubSeq(s, i, Len(s)))

Least(hits) == CHOOSE i \in hits : \A j \in hits : i <= j

\* String.prototype.match without the g flag gives null (here << >>) or the
\* leftmost match; the results below hold capture group 1 alone.

\* /\b(single word|single-word|one word)\b/.test(low)
TestSingleWord(low) ==
    \E alt \in {"single word", "single-word", "one word"} : TestWord(low, alt)

\* /\bpalindromic\b|\bpalindrome\b/.test(low)
TestPalindrome(low) == TestWord(low, "palindromic") \/ TestWord(low, "palindrome")

\* low.match(/longer than (\d+)/)
LongerMatch(low) ==
    LET lit == "longer than "
        hits == {i \in 1..Len(low) : MatchesAt(low, lit, i) /\ DigitsAt(low, i + Len(lit)) # ""}
    IN  IF hits = {} THEN <<>> ELSE <<DigitsAt(low, Least(hits) + Len(lit))>>

\* low.match(/\bat least (\d+)\b/): a digit and the character after it are both
\* word characters unless the run of digits ends there, so the closing \b
\* holds only after the whole run
AtLeastMatch(low) ==
    LET lit == "at least "
        hits == {i \in 1..Len(low) :
                    /\ MatchesAt(low, lit, i)
                    /\ Boundary(low, i)
                    /\ DigitsAt(low, i + Len(lit)) # ""
                    /\ Boundary(low, i + Len(lit) + Len(DigitsAt(low, i + Len(lit))))}
    IN  IF hits = {} THEN <<>> ELSE <<DigitsAt(low, Least(hits) + Len(lit))>>

\* /\bfirst vowel\b/.test(low)
TestFirstVowel(low) == TestWord(low, "first vowel")

\* the class [a-zA-Z0-9] at index i
AlnumAt(s, i) == i \in 1..Len(s) /\ CharAt(s, i) \in AlnumSet

\* low.match(/containing (?:the letter )?([a-zA-Z0-9])/): the optional group
\* is tried first and given up when no letter or digit follows it
ContainsMatch(low) ==
    LET lit == "containing "
        opt == "the letter "
        WithGroup(i) == MatchesAt(low, opt, i + Len(lit)) /\ AlnumAt(low, i + Len(lit) + Len(opt))
        hits == {i \in 1..Len(low) :
                    MatchesAt(low, lit, i) /\ (WithGroup(i) \/ AlnumAt(low, i + Len(lit)))}
        at == Least(hits)
    IN  IF hits = {} THEN <<>>
        ELSE IF WithGroup(at) THEN <<CharAt(low, at + Len(lit) + Len(opt))>>
        ELSE <<CharAt(low, at + Len(lit))>>

(***************************************************************************)
(* app.get("/strings/filter-by-natural-language").                         *)
(***************************************************************************)

\* lines 181, 184: parsed.word_count = 1, parsed.is_palindrome = true
ParseSingleWord(parsed, low) ==
    IF TestSingleWord(low) THEN Put(parsed, "word_count", 1) ELSE parsed

ParsePalindrome(parsed, low) ==
    IF TestPalindrome(low) THEN Put(parsed, "is_palindrome", TRUE) ELSE parsed

\* lines 190-193, 197-200: if (match) { num = parseInt(match[1], 10);
\* if (!isNaN(num)) parsed.min_length = num + add }
PutMinLength(parsed, match, add) ==
    IF match = <<>> \/ parseInt(match[1]).nan THEN parsed
    ELSE Put(parsed, "min_length", parseInt(match[1]).n + add)

ParseLonger(parsed, low) == PutMinLength(parsed, LongerMatch(low), 1)

ParseAtLeast(parsed, low) == PutMinLength(parsed, AtLeastMatch(low), 0)

\* lines 203-205
ParseFirstVowel(parsed, low) ==
    IF TestFirstVowel(low) THEN Put(parsed, "contains_character", "a") ELSE parsed

\* lines 208-211
PutContains(parsed, match) ==
    IF match = <<>> THEN parsed ELSE Put(parsed, "contains_character", match[1])

ParseContains(parsed, low) == PutContains(parsed, ContainsMatch(low))

\* lines 176-211: the filters derived from the lower-cased query, each
\* statement writing into the object the earlier ones have written
ParseQuery(low) ==
    ParseContains(ParseFirstVowel(ParseAtLeast(ParseLonger(ParsePalindrome(
        ParseSingleWord(EmptyObject, low), low), low), low), low), low)

\* lines 219-223: one filter of the derived set applied to the entries
ApplyIsPalindrome(results, parsed) ==
    IF Has(parsed, "is_palindrome")
      THEN SelectSeq(results, LAMBDA r : r.properties.is_palindrome = parsed.is_palindrome)
      ELSE results

ApplyWordCount(results, parsed) ==
    IF Has(parsed, "word_count")
      THEN SelectSeq(results, LAMBDA r : r.properties.word_count = parsed.word_count)
      ELSE results

\* a min_length filter that keeps only the strictly longer strings
ApplyMinLengthStrict(results, parsed) ==
    IF Has(parsed, "min_length")
      THEN SelectSeq(results, LAMBDA r : r.properties.length > parsed.min_length)
      ELSE results

ApplyMinLength(results, parsed) ==
    IF Has(parsed, "min_length")
      THEN SelectSeq(results, LAMBDA r : r.properties.length >= parsed.min_length)
      ELSE results

ApplyContainsCharacter(results, parsed) ==
    IF Has(parsed, "contains_character")
      THEN SelectSeq(results, LAMBDA r : Includes(r.value, parsed.contains_character))
      ELSE results

\* lines 218-223: the derived filters applied to the stored entries
ApplyParsed(results, parsed) ==
    ApplyContainsCharacter(ApplyMinLength(ApplyWordCount(
        ApplyIsPalindrome(results, parsed), parsed), parsed), parsed)

\* !q: the parameter is absent or the empty string (an array is truthy)
IsFalsy(param) == IsUndefined(param) \/ (IsStringParam(param) /\ param[1] = "")

\* lines 218-232: the 200 response
Interpreted(m, original, parsed, results) ==
    [store |-> m,
     res |-> [status |-> 200,
              body |-> [data |-> results, count |-> Len(results),
                        interpreted_query |-> [original |-> original, parsed_filters |-> parsed]]]]

\* an answer that skips the test of lines 214-216
AnswerUnchecked(m, original, parsed) ==
    Interpreted(m, original, parsed, ApplyParsed(MapValues(m), parsed))

\* lines 214-216: nothing derived is a 400
Answer(m, original, parsed) ==
    IF DOMAIN parsed = {}
      THEN [store |-> m,
            res |-> [status |-> 400, body |-> ErrorBody("Unable to parse natural language query")]]
      ELSE Interpreted(m, original, parsed, ApplyParsed(MapValues(m), parsed))

\* lines 173-174: original = String(q); low = original.toLowerCase()
FilterByNaturalLanguage(m, q) ==
    IF IsFalsy(q)
      THEN [store |-> m, res |-> [status |-> 400, body |-> ErrorBody("Missing query parameter")]]
      ELSE Answer(m, ParamToString(q), ParseQuery(toLowerCase(ParamToString(q))))

\* app.get("/")
Root(m) ==
    [store |-> m,
     res |-> [status |-> 200, body |-> [status |-> "ok", message |-> "String Analyzer API"]]]

(***************************************************************************)
(* Query strings sent to the two list handlers.                            *)
(***************************************************************************)
FilterFields == {"is_palindrome", "min_length", "max_length", "word_count", "contains_character"}

\* typed filter specifications: any subset of the fields, with these values
FilterSpecs ==
    LET full == [is_palindrome : BOOLEAN, min_length : {2, 3}, max_length : {2},
                 word_count : {1}, contains_character : {"a"}]
    IN  {[k \in D |-> f[k]] : f \in full, D \in SUBSET FilterFields}

\* the query string that carries a typed filter specification (the parameter
\* formats of the comment above app.get("/strings"))
Scalar(spec, key) ==
    IF ~Has(spec, key) THEN <<>>
    ELSE IF key = "is_palindrome" THEN <<IF spec[key] THEN "true" ELSE "false">>
    ELSE IF key = "contains_character" THEN <<spec[key]>>
    ELSE <<NumberToString(spec[key])>>

QueryOf(spec) == [k \in FilterFields \cup {"query"} |-> IF k = "query" THEN <<>> ELSE Scalar(spec, k)]

NoQuery == QueryOf(EmptyObject)

\* query strings with one parameter that is no boolean, no whole non-negative
\* integer, no single character, or is repeated
OddQueries ==
    {[NoQuery EXCEPT !.is_palindrome = v] : v \in {<<"TRUE">>, <<"yes">>, <<"true", "false">>}}
    \cup {[NoQuery EXCEPT !.min_length = v] :
            v \in {<<"12abc">>, <<"-3">>, <<"1.5">>, <<"abc">>, <<"">>, <<"2", "3">>}}
    \cup {[NoQuery EXCEPT !.max_length = v] : v \in {<<"2x">>, <<"two">>}}
    \cup {[NoQuery EXCEPT !.word_count = v] : v \in {<<" 1">>, <<"one">>}}
    \cup {[NoQuery EXCEPT !.contains_character = v] : v \in {<<"ab">>, <<"">>, <<"a", "b">>}}

ListQueries == {QueryOf(spec) : spec \in FilterSpecs} \cup OddQueries

\* values of the `query` parameter of the natural-language route
NaturalQueries ==
    {<<>>, <<"">>, <<"one word", "palindrome">>}
    \cup {<<text>> : text \in
            {"all single word palindromic strings",
             "Single-Word PALINDROME",
             "tell me a joke",
             "all palindromes",
             "strings longer than 2 characters",
             "strings longer than two characters",
             "strings of at least 3 characters",
             "at least 2chars",
             "strings longer than 2 and at least 1",
             "palindromic strings that contain the first vowel",
             "strings containing the first vowel",
             "strings containing the letter l",
             "strings containing b"}}

(***************************************************************************)
(* src/unnamed/part_000: analyzeString and the handlers that store its     *)
(* result in strDB.                                                        *)
(***************************************************************************)

\* s.replace(lit, "") with the g flag, for the literal text a pattern matches
RECURSIVE RemoveLiteralFrom(_, _, _)
RemoveLiteralFrom(s, lit, i) ==
    IF i > Len(s) THEN ""
    ELSE IF MatchesAt(s, lit, i) THEN RemoveLiteralFrom(s, lit, i + Len(lit))
    ELSE CharAt(s, i) \o RemoveLiteralFrom(s, lit, i + 1)

\* s.split(lit): the pieces between the occurrences of the literal text
RECURSIVE SplitLiteralFrom(_, _, _, _)
SplitLiteralFrom(s, lit, i, piece) ==
    IF i > Len(s) THEN <<piece>>
    ELSE IF MatchesAt(s, lit, i) THEN <<piece>> \o SplitLiteralFrom(s, lit, i + Len(lit), "")
    ELSE SplitLiteralFrom(s, lit, i + 1, piece \o CharAt(s, i))

\* the regular expression /\+s/ matches the two characters "+s"
PlusS == "+s"

\* String.prototype.split with no separator: the whole string as one element
SplitNoSeparator(s) == <<s>>

\* Array.prototype.reverse
ReverseArray(arr) == [i \in 1..Len(arr) |-> arr[Len(arr) + 1 - i]]

\* Array.prototype.join("")
JoinEmpty(arr) ==
    LET F[i \in 0..Len(arr)] == IF i = 0 THEN "" ELSE F[i - 1] \o arr[i]
    IN  F[Len(arr)]

analyzeString_part000(str) ==
    LET normalized == RemoveLiteralFrom(toLowerCase(str), PlusS, 1)
        is_palindrome == (normalized = JoinEmpty(ReverseArray(SplitNoSeparator(normalized))))
        words == FilterBoolean(SplitLiteralFrom(Trim(str), PlusS, 1, ""))
    IN  [length                  |-> Len(str),
         is_palindrome           |-> is_palindrome,
         unique_characters       |-> Cardinality(CharsOf(str)),
         word_count              |-> Len(words),
         sha_256_hash            |-> sha256(str),
         character_frequency_map |-> charFreqMap(str)]

\* part_000 app.post("/strings")
PostStrings_part000(m, t, body) ==
    IF ~body.has_value
      THEN [store |-> m, res |-> [status |-> 400, body |-> ErrorBody("value is missing")]]
    ELSE IF body.type # "string"
      THEN [store |-> m, res |-> [status |-> 422, body |-> ErrorBody("value must be a string")]]
    ELSE LET value == body.value
             properties == analyzeString_part000(value)
             id == properties.sha_256_hash
         IN  IF MapHas(m, id)
               THEN [store |-> m, res |-> [status |-> 409, body |-> ErrorBody("String already exists")]]
               ELSE LET record == [id |-> id, value |-> value,
                                   properties |-> properties, created_at |-> t]
                    IN  [store |-> MapSet(m, id, record), res |-> [status |-> 201, body |-> record]]

\* part_000 app.delete("/strings/:value")
DeleteString_part000(m, value) ==
    LET hash == sha256(value)
    IN  IF ~MapHas(m, hash)
          THEN [store |-> m, res |-> [status |-> 404, body |-> ErrorBody("String not found")]]
          ELSE [store |-> MapDelete(m, hash), res |-> [status |-> 204, body |-> NoBody]]

(***************************************************************************)
(* Routing of index.js: Express tries the routes in the order of their     *)
(* registration and runs the handler of the first whose method and path    *)
(* match; none of the handlers passes the request on.                      *)
(***************************************************************************)
Routes ==
    << [method |-> "POST",   path |-> <<"strings">>,                  handler |-> "PostStrings"],
       [method |-> "GET",    path |-> <<"strings", ":string_value">>, handler |-> "GetString"],
       [method |-> "GET",    path |-> <<"strings">>,                  handler |-> "ListStrings"],
       [method |-> "GET",    path |-> <<"strings", "filter-by-natural-language">>,
                                                                      handler |-> "FilterByNaturalLanguage"],
       [method |-> "DELETE", path |-> <<"strings", ":string_value">>, handler |-> "DeleteString"],
       [method |-> "GET",    path |-> <<>>,                           handler |-> "Root"] >>

IsParam(segment) == Len(segment) > 0 /\ CharAt(segment, 1) = ":"

\* a request path is the sequence of its non-empty, URL-decoded segments
RouteMatches(route, req) ==
    /\ route.method = req.method
    /\ Len(route.path) = Len(req.path)
    /\ \A i \in 1..Len(route.path) : IsParam(route.path[i]) \/ route.path[i] = req.path[i]

\* the index of the first matching route, 0 when none matches
FirstOf(hits) == IF hits = {} THEN 0 ELSE Least(hits)

Dispatch(req) == FirstOf({i \in 1..Len(Routes) : RouteMatches(Routes[i], req)})

HandlerAt(i) == IF i = 0 THEN "" ELSE Routes[i].handler

\* the handler a request reaches, "" when no route matches
HandlerOf(req) == HandlerAt(Dispatch(req))

\* the handler h run on the request; Express answers 404 when there is none
Run(h, m, t, req) ==
    CASE h = "PostStrings" -> PostStrings(m, t, req.body)
      [] h = "GetString" -> GetString(m, req.path[2])
      [] h = "ListStrings" -> ListStrings(m, req.query)
      [] h = "FilterByNaturalLanguage" -> FilterByNaturalLanguage(m, req.query.query)
      [] h = "DeleteString" -> DeleteString(m, req.path[2])
      [] h = "Root" -> Root(m)
      [] OTHER -> [store |-> m, res |-> [status |-> 404, body |-> ErrorBody("Cannot " \o req.method)]]

Handle(m, t, req) == Run(HandlerOf(req), m, t, req)

HttpRequest(method, path, query, body) ==
    [op |-> "http", method |-> method, path |-> path, query |-> query, body |-> body]

\* the strings sent through the router: the path of the natural-language route
\* is one of them
HttpValues == {"", "aa", "ab", "filter-by-natural-language"}

HttpRequests ==
    {HttpRequest("POST", <<"strings">>, NoQuery, body) : body \in BodiesOf(HttpValues)}
    \cup {HttpRequest(method, <<"strings", v>>, NoQuery, NoValue) :
            method \in {"GET", "DELETE"}, v \in HttpValues \ {""}}
    \cup {HttpRequest("GET", <<"strings">>, query, NoValue) : query \in ListQueries}
    \cup {HttpRequest("GET", <<"strings", "filter-by-natural-language">>,
                      [NoQuery EXCEPT !.query = q], NoValue) : q \in NaturalQueries}
    \cup {HttpRequest("GET", <<>>, NoQuery, NoValue),
          HttpRequest("DELETE", <<"strings">>, NoQuery, NoValue)}

(***************************************************************************)
(* Specification of the handlers.                                          *)
(***************************************************************************)
Idle == [op |-> "none"]
NoResponse == [status |-> 0, body |-> NoBody]

Init ==
    /\ store = <<>>
    /\ now = 0
    /\ request = Idle
    /\ response = NoResponse
    /\ strDB = <<>>

\* a handler runs to its response without interleaving with another request
Serve(req, out) ==
    /\ request = Idle
    /\ store' = out.store
    /\ request' = req
    /\ response' = out.res
    /\ UNCHANGED <<now, strDB>>

\* the response has gone out and the server waits for the next request
Sent ==
    /\ request # Idle
    /\ request' = Idle
    /\ response' = NoResponse
    /\ UNCHANGED <<store, now, strDB>>

Tick ==
    /\ request = Idle
    /\ now < MaxClock
    /\ now' = now + 1
    /\ UNCHANGED <<store, request, response, strDB>>

\* a request that would add a record is served while the store has room
Room(out) == Len(out.store) <= MaxStore

ServeWithRoom(req, out) == request = Idle /\ Room(out) /\ Serve(req, out)

Post ==
    \E body \in Bodies :
        ServeWithRoom([op |-> "post", body |-> body], PostStrings(store, now, body))

\* req.params.string_value: the route's :string_value segment is never empty
Params == Values \ {""}

Get ==
    \E raw \in Params :
        Serve([op |-> "get", raw |-> raw], GetString(store, raw))

List ==
    \E query \in ListQueries :
        Serve([op |-> "list", query |-> query], ListStrings(store, query))

NaturalLanguage ==
    \E q \in NaturalQueries :
        Serve([op |-> "nl", q |-> q], FilterByNaturalLanguage(store, q))

Delete ==
    \E raw \in Params :
        Serve([op |-> "delete", raw |-> raw], DeleteString(store, raw))

Next == Tick \/ Sent \/ Post \/ Get \/ List \/ NaturalLanguage \/ Delete

Spec == Init /\ [][Next]_vars

(***************************************************************************)
(* Specification of index.js behind its router.                            *)
(***************************************************************************)
Http ==
    \E req \in HttpRequests :
        ServeWithRoom(req, Handle(store, now, req))

NextHttp == Tick \/ Sent \/ Http

SpecHttp == Init /\ [][NextHttp]_vars

(***************************************************************************)
(* Specification of part_000's insertion and deletion.                     *)
(***************************************************************************)
Serve_part000(req, out) ==
    /\ request = Idle
    /\ Room(out)
    /\ strDB' = out.store
    /\ request' = req
    /\ response' = out.res
    /\ UNCHANGED <<now, store>>

\* the strings sent to part_000
Values_part000 == {"", "aa", "ab", "A man A", "hello"}

Post_part000 ==
    \E body \in BodiesOf(Values_part000) :
        Serve_part000([op |-> "post", body |-> body], PostStrings_part000(strDB, now, body))

Delete_part000 ==
    \E value \in Values_part000 \ {""} :
        Serve_part000([op |-> "delete", raw |-> value], DeleteString_part000(strDB, value))

Next_part000 == Tick \/ Sent \/ Post_part000 \/ Delete_part000

Spec_part000 == Init /\ [][Next_part000]_vars

(***************************************************************************)
(* Properties.  A state with request # Idle holds a request, the response  *)
(* its handler gave and the Map the handler left; the step that reaches it *)
(* starts in the Map the handler found.                                    *)
(***************************************************************************)

\* a handler answers in this step
Answers == request = Idle /\ request' # Idle

\* the string s is the value of a stored record
Stored(m, s) == \E i \in 1..Len(m) : m[i].value = s

StringBody(req) == req.op = "post" /\ req.body.has_value /\ req.body.type = "string"

ValuesOf(records) == {records[i].value : i \in 1..Len(records)}

\* what insert, get and delete answer for the value they name, and the only
\* steps by which a value enters or leaves the store
MembershipStep ==
    Answers =>
        /\ \A s \in Values :
            /\ (~Stored(store, s) /\ Stored(store', s)) =>
                    (StringBody(request') /\ request'.body.value = s /\ response'.status = 201)
            /\ (Stored(store, s) /\ ~Stored(store', s)) =>
                    (request'.op = "delete" /\ request'.raw = s /\ response'.status = 204)
        /\ StringBody(request') =>
                IF Stored(store, request'.body.value)
                  THEN response'.status = 409 /\ Stored(store', request'.body.value)
                  ELSE response'.status = 201 /\ Stored(store', request'.body.value)
        /\ request'.op = "get" =>
                IF Stored(store, request'.raw)
                  THEN /\ response'.status = 200
                       /\ response'.body.value = request'.raw
                       /\ response'.body.id = sha256(request'.raw)
                  ELSE response'.status = 404
        /\ request'.op = "delete" =>
                IF Stored(store, request'.raw)
                  THEN response'.status = 204 /\ ~Stored(store', request'.raw)
                  ELSE response'.status = 404

\* C1: a string is stored exactly from a successful insert of it to the next
\* successful delete of it (the store starts empty and membership changes by
\* these two steps alone); while it is stored a get answers 200 with the
\* record of that value and of its SHA-256 identifier and an insert answers
\* 409; while it is not stored a get and a delete answer 404.
C1_ContentAddressedMembership == [][MembershipStep]_vars

\* a delete has succeeded and the value is gone
C1_DeletedAfterInsert ==
    /\ request.op = "delete"
    /\ response.status = 204
    /\ ~Stored(store, request.raw)
    /\ Len(store) > 0

NaturalLanguagePath == <<"strings", "filter-by-natural-language">>

\* C2: a GET of /strings/filter-by-natural-language with a query parameter is
\* answered by the natural-language handler: 200 with data, count and
\* interpreted_query, or 400; it is not answered by the lookup of the string
\* "filter-by-natural-language".
C2_NaturalLanguageRouteReached ==
    (/\ request.op = "http"
     /\ request.method = "GET"
     /\ request.path = NaturalLanguagePath
     /\ ~IsUndefined(request.query.query))
        => /\ HandlerOf(request) = "FilterByNaturalLanguage"
           /\ \/ response.status = 400
              \/ /\ response.status = 200
                 /\ DOMAIN response.body = {"data", "count", "interpreted_query"}

\* C3: when the natural-language handler answers 200 with the derived filters
\* F, its data is the data the structured handler gives in the same store for
\* the query string that carries exactly the fields of F, and that handler
\* reports F as the filters it applied.
C3_NaturalLanguageEquivalence ==
    (request.op = "nl" /\ response.status = 200) =>
        /\ ListStrings(store, QueryOf(response.body.interpreted_query.parsed_filters)).res.status = 200
        /\ ListStrings(store, QueryOf(response.body.interpreted_query.parsed_filters)).res.body.filters_applied
              = response.body.interpreted_query.parsed_filters
        /\ ListStrings(store, QueryOf(response.body.interpreted_query.parsed_filters)).res.body.data
              = response.body.data

\* "all single word palindromic strings" has selected some of the stored
\* records and left others out
C3_SingleWordPalindromes ==
    /\ request.op = "nl"
    /\ request.q = <<"all single word palindromic strings">>
    /\ response.status = 200
    /\ response.body.interpreted_query.parsed_filters = [word_count |-> 1, is_palindrome |-> TRUE]
    /\ Len(response.body.data) > 0
    /\ Len(response.body.data) < Len(store)

\* one of the patterns of lines 181-208 matches the lower-cased text
AnyPattern(low) ==
    \/ TestSingleWord(low)
    \/ TestPalindrome(low)
    \/ LongerMatch(low) # <<>>
    \/ AtLeastMatch(low) # <<>>
    \/ TestFirstVowel(low)
    \/ ContainsMatch(low) # <<>>

\* C4: the natural-language handler answers 400, with an error and no records,
\* exactly when no pattern matches the query text, and otherwise 200 with at
\* least one derived filter and the original text.
C4_UnparseableDistinction ==
    (request.op = "nl" /\ ~IsUndefined(request.q)) =>
        /\ response.status \in {200, 400}
        /\ (response.status = 400) <=> ~AnyPattern(toLowerCase(ParamToString(request.q)))
        /\ (response.status = 400) => DOMAIN response.body = {"error"}
        /\ (response.status = 200) =>
              /\ DOMAIN response.body.interpreted_query.parsed_filters # {}
              /\ response.body.interpreted_query.original = ParamToString(request.q)

\* "tell me a joke" is answered 400 while records are stored
C4_JokeIsUnparseable ==
    /\ request.op = "nl"
    /\ request.q = <<"tell me a joke">>
    /\ response.status = 400
    /\ Len(store) > 0

\* C5: a query text with "longer than N" is interpreted with min_length = N + 1,
\* whichever other patterns it holds.
C5_LongerThanSetsMinLength ==
    (/\ request.op = "nl"
     /\ IsStringParam(request.q)
     /\ LongerMatch(toLowerCase(request.q[1])) # <<>>)
        => /\ response.status = 200
           /\ Has(response.body.interpreted_query.parsed_filters, "min_length")
           /\ response.body.interpreted_query.parsed_filters.min_length
                = DigitsToNumber(LongerMatch(toLowerCase(request.q[1]))[1]) + 1

\* C6: a query text with the phrase "first vowel" is interpreted with
\* contains_character = "a".
C6_FirstVowelIsA ==
    (/\ request.op = "nl"
     /\ IsStringParam(request.q)
     /\ TestFirstVowel(toLowerCase(request.q[1])))
        => /\ response.status = 200
           /\ Has(response.body.interpreted_query.parsed_filters, "contains_character")
           /\ response.body.interpreted_query.parsed_filters.contains_character = "a"

\* the whole text is a decimal numeral
IsWholeNumber(text) == text # "" /\ \A i \in 1..Len(text) : IsDigit(CharAt(text, i))

\* a parameter that is absent, or given once with a text of the field's type
WellTyped(key, param) ==
    \/ IsUndefined(param)
    \/ /\ IsStringParam(param)
       /\ CASE key = "is_palindrome" -> toLowerCase(param[1]) \in {"true", "false"}
            [] key = "contains_character" -> Len(param[1]) = 1
            [] OTHER -> IsWholeNumber(param[1])

\* C7: a GET /strings request is answered 400 with an error and no records, or
\* it is answered 200 and every parameter it carries is given once, as a
\* boolean, as a whole non-negative decimal number, or as one character.
C7_StructuredFilterValidation ==
    (request.op = "list") =>
        \/ response.status = 400 /\ DOMAIN response.body = {"error"}
        \/ /\ response.status = 200
           /\ \A key \in FilterFields : WellTyped(key, request.query[key])

\* the record r satisfies every predicate present in F
Satisfies(F, r) ==
    /\ Has(F, "is_palindrome") => r.properties.is_palindrome = F.is_palindrome
    /\ Has(F, "min_length") => r.properties.length >= F.min_length
    /\ Has(F, "max_length") => r.properties.length <= F.max_length
    /\ Has(F, "word_count") => r.properties.word_count = F.word_count
    /\ Has(F, "contains_character") => Includes(r.value, F.contains_character)

QueryTable == [F \in FilterSpecs |-> QueryOf(F)]

\* the structured list answers the typed filter F with the stored records that
\* satisfy all the predicates present in F, and echoes F
AndComposition(F) ==
    /\ response.status = 200
    /\ response.body.data = SelectSeq(store, LAMBDA r : Satisfies(F, r))
    /\ response.body.count = Len(response.body.data)
    /\ response.body.filters_applied = F

TwoAndA == [min_length |-> 2, contains_character |-> "a"]

\* C8 (amended): for every typed filter, the structured list returns exactly
\* the stored records that satisfy all present predicates, whatever the order
\* of the predicates, and filters_applied echoes exactly the present fields;
\* the store {"aa", "aaa", "ab"} with min_length = 2, contains_character = "a"
\* gives all three records.
C8_AndComposition ==
    (request.op = "list") =>
        /\ \A F \in FilterSpecs : (request.query = QueryTable[F]) => AndComposition(F)
        /\ (request.query = QueryTable[TwoAndA] /\ ValuesOf(store) = {"aa", "aaa", "ab"})
              => ValuesOf(response.body.data) = {"aa", "aaa", "ab"}

\* the store holds "aa", "aaa", "ab" and the list is filtered by min_length = 2,
\* contains_character = "a"
C8_ThreeStringsFiltered ==
    /\ request.op = "list"
    /\ request.query = QueryTable[TwoAndA]
    /\ ValuesOf(store) = {"aa", "aaa", "ab"}
    /\ response.status = 200
    /\ response.body.filters_applied = TwoAndA

\* C8 as stated: the AND-composition as above, and the store {"aa", "aaa", "ab"}
\* with min_length = 2, contains_character = "a" gives exactly {"aa", "aaa"}.
C8_AsStated ==
    (request.op = "list") =>
        /\ \A F \in FilterSpecs : (request.query = QueryTable[F]) => AndComposition(F)
        /\ (request.query = QueryTable[TwoAndA] /\ ValuesOf(store) = {"aa", "aaa", "ab"})
              => ValuesOf(response.body.data) = {"aa", "aaa"}

\* the value lower-cased, without whitespace, reads the same backwards
ReadsTheSameBackwards(value) ==
    RemoveSpaces(toLowerCase(value)) = Reversed(RemoveSpaces(toLowerCase(value)))

\* C9: the is_palindrome of every record either analyzer has produced is true
\* exactly when the value, lower-cased and without whitespace, equals its
\* reversal.
C9_PalindromeNormalization ==
    /\ \A i \in 1..Len(store) :
          store[i].properties.is_palindrome = ReadsTheSameBackwards(store[i].value)
    /\ \A i \in 1..Len(strDB) :
          strDB[i].properties.is_palindrome = ReadsTheSameBackwards(strDB[i].value)

\* the store before and after a step in which a handler answers
FrameStep ==
    Answers =>
        IF StringBody(request') /\ response'.status = 201
          THEN /\ ~Stored(store, request'.body.value)
               /\ Len(store') = Len(store) + 1
               /\ SubSeq(store', 1, Len(store)) = store
               /\ store'[Len(store')].value = request'.body.value
               /\ store'[Len(store')].id = sha256(request'.body.value)
               /\ store'[Len(store')].created_at = now
        ELSE IF request'.op = "delete" /\ response'.status = 204
          THEN /\ Stored(store, request'.raw)
               /\ Len(store') = Len(store) - 1
               /\ store' = SelectSeq(store, LAMBDA e : e.value # request'.raw)
        ELSE store' = store

\* C10: the store changes only by an insert answered 201, which adds one
\* record for the inserted value, and by a delete answered 204, which removes
\* the record of the deleted value; every other request, and the passing of
\* time, leaves the store as it is, and the records that stay keep their id,
\* value, properties and created_at.
C10_StoreFrame == [][FrameStep /\ (~Answers => store' = store)]_vars

\* an insert has been answered 409 at a time later than the creation of the
\* stored record
C10_ConflictLater ==
    /\ request.op = "post"
    /\ response.status = 409
    /\ \E i \in 1..Len(store) :
          store[i].value = request.body.value /\ store[i].created_at < now
====
